---- MODULE Spec2Model ----
(***************************************************************************)
(* Model of jpg_insert_word: generate_word_report.py (filename parsing and *)
(* ordering, row chunking, table assembly, canvas geometry, progress       *)
(* callback, error paths) and gui_app.py (worker thread and foreground     *)
(* event queue of ReportApp).                                              *)
(*                                                                         *)
(* File names are sequences of one-character strings, so that split,       *)
(* strip, the mileage regular expression, int() and string comparison are  *)
(* computed character by character as the Python code computes them.       *)
(***************************************************************************)
EXTENDS Integers, Sequences, FiniteSets, TLC

VARIABLES
  pc,          \* control position of the process the specification runs
  \* ---- find_images / generate_word_report
  dirExists,   \* image_dir.is_dir()
  listing,     \* folder.iterdir(): the directory entries in enumeration order
  listing2,    \* a second enumeration order of the same entries (second run)
  images,      \* the list find_images returned
  images2,     \* the list find_images returned for listing2
  \* ---- build_document
  per_row, hasCallback, bad,
  table, chunks, row_images, col_idx, stream,
  image_index, processed, total,
  calls,       \* the (done, total) pairs the progress callback received
  log,         \* history: table commits and callback invocations in order
  err, outfile, outfile0,
  \* ---- prepare_image_stream
  img_size, target, new_size, offset,
  \* ---- ReportApp
  button,      \* state of run_button
  dialog,      \* stack of open modal message boxes
  folderOk,    \* whether the folder entry names an existing folder
  worker,      \* the threads started so far, each with its position
  queue        \* callbacks posted with self.after(0, ...), oldest first

sortVars   == <<dirExists, listing, listing2, images, images2>>
buildVars  == <<per_row, hasCallback, bad, table, chunks, row_images, col_idx,
                stream, image_index, processed, total, calls, log, err,
                outfile, outfile0>>
canvasVars == <<img_size, target, new_size, offset>>
guiVars    == <<button, dialog, folderOk, worker, queue>>
vars       == <<pc, sortVars, buildVars, canvasVars, guiVars>>

(***************************************************************************)
(* Bounds of the model.                                                    *)
(***************************************************************************)
MaxFiles      == 4   \* directory entries per listing (ordering specification)
MaxEnumFiles  == 3   \* directory entries when two enumerations are compared
MaxDirEntries == 8   \* directory entries of a pipeline run
MaxPerRow     == 3   \* per_row ranges over 1..MaxPerRow
MaxBad        == 1   \* undecodable image files per run
MaxDim        == 6   \* pixel sizes range over 1..MaxDim
MaxRuns       == 3   \* worker threads the GUI may start
MaxProgress   == 2   \* progress callbacks one worker may post
FracDigits    == 2   \* decimal places kept of a mileage value

Min(a, b) == IF a <= b THEN a ELSE b
Max(a, b) == IF a >= b THEN a ELSE b
Range(s)  == {s[i] : i \in 1..Len(s)}

RECURSIVE Pow10(_)
Pow10(n) == IF n = 0 THEN 1 ELSE 10 * Pow10(n - 1)

(***************************************************************************)
(* Characters.  CharTable lists the characters used in file names in code  *)
(* point order, which is the order Python compares str by.                 *)
(***************************************************************************)
CharTable == <<" ", "+", "-", ".", "0", "1", "2", "3", "4", "5", "6", "7",
               "8", "9", "K", "a", "b", "c", "x", "y">>
Ord(c)      == CHOOSE i \in 1..Len(CharTable) : CharTable[i] = c
Digits      == <<"0", "1", "2", "3", "4", "5", "6", "7", "8", "9">>
IsDigit(c)  == c \in Range(Digits)
DigitVal(c) == (CHOOSE i \in 1..10 : Digits[i] = c) - 1
IsSpace(c)  == c = " "

\* str.strip(): leading and trailing whitespace removed
RECURSIVE LStrip(_)
LStrip(s) == IF s # <<>> /\ IsSpace(Head(s)) THEN LStrip(Tail(s)) ELSE s
RECURSIVE RStrip(_)
RStrip(s) == IF s # <<>> /\ IsSpace(s[Len(s)])
             THEN RStrip(SubSeq(s, 1, Len(s) - 1)) ELSE s
Strip(s)  == RStrip(LStrip(s))

\* value of a run of decimal digits
RECURSIVE DigitsVal(_)
DigitsVal(s) == IF s = <<>> THEN 0
                ELSE 10 * DigitsVal(SubSeq(s, 1, Len(s) - 1)) + DigitVal(s[Len(s)])

AllDigits(s) == \A i \in 1..Len(s) : IsDigit(s[i])

\* int(text.strip()): optional sign, then one or more digits; anything else
\* raises ValueError (ok = FALSE)
IntParse(text) ==
  LET s    == Strip(text)
      sign == s # <<>> /\ s[1] \in {"+", "-"}
      body == IF sign THEN Tail(s) ELSE s
  IN  IF body # <<>> /\ AllDigits(body)
      THEN [ok |-> TRUE,
            val |-> IF sign /\ s[1] = "-" THEN 0 - DigitsVal(body) ELSE DigitsVal(body)]
      ELSE [ok |-> FALSE, val |-> 0]

\* length of the maximal run of digits of s starting at position i
RECURSIVE DigitRun(_, _)
DigitRun(s, i) == IF i <= Len(s) /\ IsDigit(s[i]) THEN 1 + DigitRun(s, i + 1) ELSE 0

\* float("inf") and finite floats.  A finite value is kept exactly, as the
\* integer value * 10^FracDigits.
Inf         == [inf |-> TRUE, val |-> 0]
Finite(v)   == [inf |-> FALSE, val |-> v]
FloatLT(a, b) == ~a.inf /\ (b.inf \/ a.val < b.val)

\* float(token) for a token matched by [0-9]+(?:\.[0-9]+)?
FloatOf(ip, fp) ==
  LET kept == SubSeq(fp, 1, Min(Len(fp), FracDigits))
  IN  Finite(DigitsVal(ip) * Pow10(FracDigits)
             + DigitsVal(kept) * Pow10(FracDigits - Len(kept)))

\* parse_mileage: the first match of [0-9]+(?:\.[0-9]+)? in text, as a float;
\* inf when there is none
parse_mileage(text) ==
  LET starts == {i \in 1..Len(text) : IsDigit(text[i])}
  IN  IF starts = {} THEN Inf
      ELSE LET i  == CHOOSE k \in starts : \A m \in starts : k <= m
               n  == DigitRun(text, i)
               j  == i + n
               fn == IF j <= Len(text) /\ text[j] = "." THEN DigitRun(text, j + 1) ELSE 0
           IN  FloatOf(SubSeq(text, i, j - 1),
                       IF fn > 0 THEN SubSeq(text, j + 1, j + fn) ELSE <<>>)

(***************************************************************************)
(* Directory entries: path.stem, path.suffix and path.is_file().           *)
(***************************************************************************)
IMAGE_EXTS == {".jpg", ".jpeg", ".png", ".bmp", ".gif", ".tif", ".tiff", ".webp"}

\* str.lower() on the suffixes that occur
Lower(suffix) == CASE suffix = ".PNG" -> ".png"
                   [] suffix = ".JPG" -> ".jpg"
                   [] OTHER -> suffix

Entry(stem, suffix, isFile) == [stem |-> stem, suffix |-> suffix, isFile |-> isFile]

\* The directory entries the specifications draw from.
Pool == <<
  Entry(<<"x", "y">>, ".txt", TRUE),                       \* not an image
  Entry(<<"1", "0", "0", "-", "2">>, ".jpg", TRUE),
  Entry(<<"5", "0", "-", "9">>, ".jpg", TRUE),
  Entry(<<"a", "b", "c">>, ".png", TRUE),                  \* no mileage
  Entry(<<"1", "0", "0", "-", "1">>, ".jpg", TRUE),
  Entry(<<"1", "0", "0", "-", "1">>, ".PNG", TRUE),        \* same stem, other suffix
  Entry(<<"1", "0", "0", "-", "x">>, ".jpg", TRUE),        \* y unparsable
  Entry(<<"1", "0", "0", "-", "y">>, ".jpg", TRUE),        \* y unparsable
  Entry(<<"K", "1", ".", "5", " ", "-", " ", "3">>, ".jpeg", TRUE),
  Entry(<<"7">>, ".gif", TRUE),                            \* no separator
  Entry(<<"1", "0", "0", "-", "-", "1">>, ".bmp", TRUE),   \* y = -1
  Entry(<<"9", "-", "1">>, ".jpg", FALSE)                  \* a directory
>>

Supported(path) == path.isFile /\ Lower(path.suffix) \in IMAGE_EXTS

\* stem.split("-", 1): the text before and after the first "-"
DashAt(stem) == LET ds == {i \in 1..Len(stem) : stem[i] = "-"}
                IN  IF ds = {} THEN 0 ELSE CHOOSE i \in ds : \A k \in ds : i <= k

\* The ImageItem find_images builds for one path
ImageItem(path) ==
  LET stem == path.stem
      d    == DashAt(stem)
      mileage_text == IF d > 0 THEN Strip(SubSeq(stem, 1, d - 1)) ELSE Strip(stem)
      y    == IF d > 0 THEN IntParse(SubSeq(stem, d + 1, Len(stem)))
              ELSE [ok |-> FALSE, val |-> 0]
  IN  [path |-> path,
       mileage_text |-> mileage_text,
       mileage_value |-> parse_mileage(mileage_text),
       y_value |-> IF y.ok THEN y.val ELSE 0]

\* str comparison: lexicographic by code point, a proper prefix is smaller
RECURSIVE StrLT(_, _)
StrLT(a, b) ==
  IF b = <<>> THEN FALSE
  ELSE IF a = <<>> THEN TRUE
  ELSE IF Ord(Head(a)) # Ord(Head(b)) THEN Ord(Head(a)) < Ord(Head(b))
  ELSE StrLT(Tail(a), Tail(b))

\* tuple comparison of the sort key (mileage_value, y_value, mileage_text)
KeyLT_NoY(a, b) ==
  \/ FloatLT(a.mileage_value, b.mileage_value)
  \/ /\ a.mileage_value = b.mileage_value
     /\ StrLT(a.mileage_text, b.mileage_text)

KeyLT(a, b) ==
  \/ FloatLT(a.mileage_value, b.mileage_value)
  \/ /\ a.mileage_value = b.mileage_value
     /\ \/ a.y_value < b.y_value
        \/ /\ a.y_value = b.y_value
           /\ StrLT(a.mileage_text, b.mileage_text)

\* list.sort(key=...): a stable sort; an item goes after the items already
\* placed whose key is not greater
Insert(sorted, x) ==
  LET n == Cardinality({i \in 1..Len(sorted) : ~KeyLT(x, sorted[i])})
  IN  SubSeq(sorted, 1, n) \o <<x>> \o SubSeq(sorted, n + 1, Len(sorted))

RECURSIVE SortItems(_)
SortItems(s) == IF s = <<>> THEN <<>>
                ELSE Insert(SortItems(SubSeq(s, 1, Len(s) - 1)), s[Len(s)])

\* find_images
RECURSIVE Collect(_)
Collect(entries) ==
  IF entries = <<>> THEN <<>>
  ELSE IF Supported(Head(entries))
       THEN <<ImageItem(Head(entries))>> \o Collect(Tail(entries))
       ELSE Collect(Tail(entries))

find_images(entries) == SortItems(Collect(entries))

(***************************************************************************)
(* Idle values of the variables a specification does not use.              *)
(***************************************************************************)
SortIdle   == /\ dirExists = TRUE /\ listing = <<>> /\ listing2 = <<>>
              /\ images = <<>> /\ images2 = <<>>
BuildIdle  == /\ per_row = 2 /\ hasCallback = FALSE /\ bad = {}
              /\ table = <<>> /\ chunks = <<>> /\ row_images = <<>>
              /\ col_idx = 0 /\ stream = 0
              /\ image_index = 1 /\ processed = 0 /\ total = 0
              /\ calls = <<>> /\ log = <<>> /\ err = "none"
              /\ outfile = "absent" /\ outfile0 = "absent"
CanvasIdle == /\ img_size = <<1, 1>> /\ target = <<1, 1>>
              /\ new_size = <<0, 0>> /\ offset = <<0, 0>>
GuiIdle    == /\ button = "normal" /\ dialog = <<>> /\ folderOk = TRUE
              /\ worker = <<>> /\ queue = <<>>

(***************************************************************************)
(* Directory listings: the entries of a directory are distinct, and        *)
(* iterdir() yields them in an arbitrary order.                            *)
(***************************************************************************)
Injective(s) == \A i, j \in 1..Len(s) : i # j => s[i] # s[j]
Listings(n)  == UNION {{s \in [1..k -> Range(Pool)] : Injective(s)} : k \in 0..n}
Perms(s)     == {q \in [1..Len(s) -> Range(s)] : Injective(q)}

(***************************************************************************)
(* SpecSort: find_images on one directory listing.                         *)
(***************************************************************************)
InitSort ==
  /\ pc = "scan"
  /\ dirExists = TRUE
  /\ listing \in Listings(MaxFiles)
  /\ listing2 = <<>> /\ images = <<>> /\ images2 = <<>>
  /\ BuildIdle /\ CanvasIdle /\ GuiIdle

FindImages ==
  /\ pc = "scan"
  /\ images' = find_images(listing)
  /\ pc' = "found"
  /\ UNCHANGED <<dirExists, listing, listing2, images2, buildVars, canvasVars, guiVars>>

NextSort == FindImages
SpecSort == InitSort /\ [][NextSort]_vars

(***************************************************************************)
(* SpecEnum: find_images run twice over the same directory, the entries    *)
(* enumerated in a possibly different order the second time.               *)
(***************************************************************************)
InitEnum ==
  /\ pc = "scan"
  /\ dirExists = TRUE
  /\ listing \in Listings(MaxEnumFiles)
  /\ listing2 = <<>> /\ images = <<>> /\ images2 = <<>>
  /\ BuildIdle /\ CanvasIdle /\ GuiIdle

Reenumerate ==
  /\ pc = "found"
  /\ listing2' \in Perms(listing)
  /\ pc' = "rescan"
  /\ UNCHANGED <<dirExists, listing, images, images2, buildVars, canvasVars, guiVars>>

FindImagesAgain ==
  /\ pc = "rescan"
  /\ images2' = find_images(listing2)
  /\ pc' = "found2"
  /\ UNCHANGED <<dirExists, listing, listing2, images, buildVars, canvasVars, guiVars>>

NextEnum == FindImages \/ Reenumerate \/ FindImagesAgain
SpecEnum == InitEnum /\ [][NextEnum]_vars

(***************************************************************************)
(* Claims about find_images.                                               *)
(***************************************************************************)
Paths(its) == [i \in 1..Len(its) |-> its[i].path]

\* The order the claim states: numeric mileage ascending, then y_value, then
\* mileage_text
C3_NotAfter(a, b) ==
  \/ FloatLT(a.mileage_value, b.mileage_value)
  \/ /\ a.mileage_value = b.mileage_value
     /\ \/ a.y_value < b.y_value
        \/ /\ a.y_value = b.y_value
           /\ ~StrLT(b.mileage_text, a.mileage_text)

\* The key of each Pool entry as the claim defines it, worked out by hand:
\* <<mileage parsable, mileage numerator, mileage denominator, y_value>>
C3_ExpectedKey == <<
  <<FALSE, 0, 1, 0>>,
  <<TRUE, 100, 1, 2>>,
  <<TRUE, 50, 1, 9>>,
  <<FALSE, 0, 1, 0>>,
  <<TRUE, 100, 1, 1>>,
  <<TRUE, 100, 1, 1>>,
  <<TRUE, 100, 1, 0>>,
  <<TRUE, 100, 1, 0>>,
  <<TRUE, 3, 2, 3>>,
  <<TRUE, 7, 1, 0>>,
  <<TRUE, 100, 1, -1>>,
  <<TRUE, 9, 1, 1>>
>>

C3_KeyAsStated(it) ==
  LET k == CHOOSE i \in 1..Len(Pool) : Pool[i] = it.path
      e == C3_ExpectedKey[k]
  IN  /\ it.mileage_value.inf = ~e[1]
      /\ e[1] => it.mileage_value.val * e[3] = e[2] * Pow10(FracDigits)
      /\ it.y_value = e[4]

C3_Example == <<Pool[2], Pool[3], Pool[4], Pool[5]>>

\* C3: find_images returns a permutation of the directory's supported image
\* files, non-decreasing under (mileage_value, y_value, mileage_text), each
\* key as the claim defines it, items with unparsable mileage after all
\* others; 100-2, 50-9, abc, 100-1 come out as 50-9, 100-1, 100-2, abc.
C3_SortedPermutation ==
  pc = "found" =>
    /\ Len(images) = Cardinality({e \in Range(listing) : Supported(e)})
    /\ Range(Paths(images)) = {e \in Range(listing) : Supported(e)}
    /\ \A i \in 1..Len(images) : C3_KeyAsStated(images[i])
    /\ \A i, j \in 1..Len(images) : i < j => C3_NotAfter(images[i], images[j])
    /\ \A i, j \in 1..Len(images) :
         (i < j /\ images[i].mileage_value.inf) => images[j].mileage_value.inf
    /\ Range(listing) = Range(C3_Example) =>
         Paths(images) = <<Pool[3], Pool[5], Pool[2], Pool[4]>>

C3_Witness ==
  /\ pc = "found"
  /\ listing = C3_Example
  /\ Paths(images) = <<Pool[3], Pool[5], Pool[2], Pool[4]>>

\* C4: for one fixed set of files, any two enumeration orders of the
\* directory yield the same output sequence of files.
C4_SameOrder ==
  pc = "found2" => Paths(images2) = Paths(images)

(***************************************************************************)
(* Spec: one run of generate_word_report.  build_document is followed      *)
(* statement by statement, since the claims are about the order of its     *)
(* effects: pc is "start", "chunk" (head of the loop over chunked(...)),   *)
(* "cell" (head of the loop over the two image cells), "place",            *)
(* "progress", "caption", "save", "done" or "error".                       *)
(***************************************************************************)

\* chunked(items, size): rows of exactly size items, the last one shorter
RECURSIVE ChunkLoop(_, _, _)
ChunkLoop(items, size, row) ==
  IF items = <<>> THEN (IF row # <<>> THEN <<row>> ELSE <<>>)
  ELSE LET row1 == Append(row, Head(items))
       IN  IF Len(row1) = size
           THEN <<row1>> \o ChunkLoop(Tail(items), size, <<>>)
           ELSE ChunkLoop(Tail(items), size, row1)

chunked(items, size) == ChunkLoop(items, size, <<>>)

TableCols   == 3            \* document.add_table(rows=0, cols=3)
ColumnCells == <<0, 2>>     \* for col_idx, cell_idx in enumerate((0, 2))
CycleLen    == 3            \* s_cycle = (image_index - 1) % 3 + 1

EmptyCell          == [kind |-> "empty"]
ImageCell(item)    == [kind |-> "image", path |-> item.path]
CaptionCell(n, item, s) ==
  [kind |-> "caption", n |-> n, text |-> item.mileage_text, s |-> s]

\* add_row(): table.add_row(), every cell given its width and zero margins
NewRow == [c \in 1..TableCols |-> EmptyCell]

\* table with cell cell_idx (counted from 0) of physical row r replaced
SetCell(t, r, cell_idx, v) == [t EXCEPT ![r][cell_idx + 1] = v]

\* The directory of a run, in the order iterdir() yields it
DirEnumeration == Pool

Init ==
  /\ pc = "start"
  /\ dirExists \in BOOLEAN
  /\ listing \in {SubSeq(DirEnumeration, 1, n) :
                    n \in 0..(IF dirExists THEN Min(MaxDirEntries, Len(DirEnumeration)) ELSE 0)}
  /\ listing2 = <<>> /\ images = <<>> /\ images2 = <<>>
  /\ per_row \in 1..MaxPerRow
  /\ hasCallback \in BOOLEAN
  /\ bad \in {b \in SUBSET {e \in Range(listing) : Supported(e)} : Cardinality(b) <= MaxBad}
  /\ table = <<>> /\ chunks = <<>> /\ row_images = <<>>
  /\ col_idx = 0 /\ stream = 0
  /\ image_index = 1 /\ processed = 0 /\ total = 0
  /\ calls = <<>> /\ log = <<>> /\ err = "none"
  /\ outfile0 \in {"absent", "old"}
  /\ outfile = outfile0
  /\ CanvasIdle /\ GuiIdle

\* generate_word_report up to the call of build_document, and build_document
\* up to its loop
GenerateStart ==
  /\ pc = "start"
  /\ IF ~dirExists
     THEN /\ pc' = "error" /\ err' = "notfound"
          /\ UNCHANGED <<images, chunks, total>>
     ELSE /\ images' = find_images(listing)
          /\ IF images' = <<>>
             THEN /\ pc' = "error" /\ err' = "noinput"
                  /\ UNCHANGED <<chunks, total>>
             ELSE /\ pc' = "chunk" /\ err' = err
                  /\ total' = Len(images')
                  /\ chunks' = chunked(images', per_row)
  /\ table' = <<>> /\ image_index' = 1 /\ processed' = 0
  /\ UNCHANGED <<dirExists, listing, listing2, images2, per_row, hasCallback, bad,
                 row_images, col_idx, stream, calls, log, outfile, outfile0,
                 canvasVars, guiVars>>

\* for row_images in chunked(images, per_row): img_row, cap_row = add_row(), add_row()
BeginRow ==
  /\ pc = "chunk" /\ chunks # <<>>
  /\ row_images' = Head(chunks)
  /\ chunks' = Tail(chunks)
  /\ table' = table \o <<NewRow, NewRow>>
  /\ col_idx' = 0
  /\ pc' = "cell"
  /\ UNCHANGED <<sortVars, per_row, hasCallback, bad, stream, image_index, processed,
                 total, calls, log, err, outfile, outfile0, canvasVars, guiVars>>

\* the loop is exhausted: borders removed, the document returned
FinishTable ==
  /\ pc = "chunk" /\ chunks = <<>>
  /\ pc' = "save"
  /\ UNCHANGED <<sortVars, buildVars, canvasVars, guiVars>>

\* stream = prepare_image_stream(image_item.path, ...): Image.open raises on
\* a file it cannot decode
PrepareImage_SkipBad ==
  /\ pc = "cell" /\ col_idx < Len(ColumnCells) /\ col_idx < Len(row_images)
  /\ LET image_item == row_images[col_idx + 1]
     IN  /\ log' = Append(log, <<"open", image_item.path>>)
         /\ IF image_item.path \in bad
            THEN /\ col_idx' = col_idx + 1 /\ pc' = "cell" /\ stream' = stream
            ELSE /\ col_idx' = col_idx /\ pc' = "place" /\ stream' = stream + 1
  /\ UNCHANGED <<sortVars, per_row, hasCallback, bad, table, chunks, row_images,
                 image_index, processed, total, calls, err, outfile, outfile0,
                 canvasVars, guiVars>>

PrepareImage ==
  /\ pc = "cell" /\ col_idx < Len(ColumnCells) /\ col_idx < Len(row_images)
  /\ LET image_item == row_images[col_idx + 1]
     IN  /\ log' = Append(log, <<"open", image_item.path>>)
         /\ IF image_item.path \in bad
            THEN /\ pc' = "error" /\ err' = "decode" /\ stream' = stream
            ELSE /\ pc' = "place" /\ err' = err /\ stream' = stream + 1
  /\ UNCHANGED <<sortVars, per_row, hasCallback, bad, table, chunks, row_images,
                 col_idx, image_index, processed, total, calls, outfile, outfile0,
                 canvasVars, guiVars>>

\* add_image_block(img_row.cells[cell_idx], stream, ...); processed += 1
AddImageBlock_CallbackFirst ==
  /\ pc = "place"
  /\ LET image_item == row_images[col_idx + 1]
     IN  /\ table' = SetCell(table, Len(table) - 1, ColumnCells[col_idx + 1],
                             ImageCell(image_item))
         /\ processed' = processed + 1
         /\ calls' = IF hasCallback THEN Append(calls, <<processed', total>>) ELSE calls
         /\ log' = IF hasCallback
                   THEN log \o <<<<"callback", image_item.path>>, <<"canvas", image_item.path>>>>
                   ELSE Append(log, <<"canvas", image_item.path>>)
  /\ pc' = "caption"
  /\ UNCHANGED <<sortVars, per_row, hasCallback, bad, chunks, row_images, col_idx,
                 stream, image_index, total, err, outfile, outfile0,
                 canvasVars, guiVars>>

AddImageBlock ==
  /\ pc = "place"
  /\ LET image_item == row_images[col_idx + 1]
     IN  /\ table' = SetCell(table, Len(table) - 1, ColumnCells[col_idx + 1],
                             ImageCell(image_item))
         /\ log' = Append(log, <<"canvas", image_item.path>>)
  /\ processed' = processed + 1
  /\ pc' = "progress"
  /\ UNCHANGED <<sortVars, per_row, hasCallback, bad, chunks, row_images, col_idx,
                 stream, image_index, total, calls, err, outfile, outfile0,
                 canvasVars, guiVars>>

\* if progress_callback: progress_callback(processed, total)
ProgressCallback ==
  /\ pc = "progress"
  /\ IF hasCallback
     THEN /\ calls' = Append(calls, <<processed, total>>)
          /\ log' = Append(log, <<"callback", row_images[col_idx + 1].path>>)
     ELSE UNCHANGED <<calls, log>>
  /\ pc' = "caption"
  /\ UNCHANGED <<sortVars, per_row, hasCallback, bad, table, chunks, row_images,
                 col_idx, stream, image_index, processed, total, err, outfile,
                 outfile0, canvasVars, guiVars>>

\* the caption cell is cleared and the label written; image_index += 1
WriteCaption ==
  /\ pc = "caption"
  /\ LET image_item == row_images[col_idx + 1]
         s_cycle    == ((image_index - 1) % CycleLen) + 1
     IN  /\ table' = SetCell(table, Len(table), ColumnCells[col_idx + 1],
                             CaptionCell(image_index, image_item, s_cycle))
         /\ log' = Append(log, <<"caption", image_item.path>>)
  /\ image_index' = image_index + 1
  /\ col_idx' = col_idx + 1
  /\ pc' = "cell"
  /\ UNCHANGED <<sortVars, per_row, hasCallback, bad, chunks, row_images, stream,
                 processed, total, calls, err, outfile, outfile0,
                 canvasVars, guiVars>>

\* else: img_row.cells[cell_idx].text = ""; cap_row.cells[cell_idx].text = ""
BlankCells ==
  /\ pc = "cell" /\ col_idx < Len(ColumnCells) /\ col_idx >= Len(row_images)
  /\ table' = SetCell(SetCell(table, Len(table) - 1, ColumnCells[col_idx + 1], EmptyCell),
                      Len(table), ColumnCells[col_idx + 1], EmptyCell)
  /\ col_idx' = col_idx + 1
  /\ UNCHANGED <<pc, sortVars, per_row, hasCallback, bad, chunks, row_images, stream,
                 image_index, processed, total, calls, log, err, outfile, outfile0,
                 canvasVars, guiVars>>

\* img_row.cells[1].text = ""; cap_row.cells[1].text = ""
EndRow ==
  /\ pc = "cell" /\ col_idx = Len(ColumnCells)
  /\ table' = SetCell(SetCell(table, Len(table) - 1, 1, EmptyCell), Len(table), 1, EmptyCell)
  /\ pc' = "chunk"
  /\ UNCHANGED <<sortVars, per_row, hasCallback, bad, chunks, row_images, col_idx,
                 stream, image_index, processed, total, calls, log, err, outfile,
                 outfile0, canvasVars, guiVars>>

\* document.save(str(output_path))
SaveDocument ==
  /\ pc = "save"
  /\ outfile' = "new"
  /\ pc' = "done"
  /\ UNCHANGED <<sortVars, per_row, hasCallback, bad, table, chunks, row_images,
                 col_idx, stream, image_index, processed, total, calls, log, err,
                 outfile0, canvasVars, guiVars>>

Next == \/ GenerateStart \/ BeginRow \/ FinishTable \/ PrepareImage
        \/ AddImageBlock \/ ProgressCallback \/ WriteCaption \/ BlankCells
        \/ EndRow \/ SaveDocument

Spec == Init /\ [][Next]_vars

(***************************************************************************)
(* Claims about build_document and generate_word_report.                   *)
(***************************************************************************)
N == Len(images)

\* the cells <<r, c>> (physical row, cell, both counted from 1) of a kind
CellsOf(kind) ==
  {rc \in (1..Len(table)) \X (1..TableCols) : table[rc[1]][rc[2]].kind = kind}

\* the cells that embed the image of item it
CellsEmbedding(it) ==
  {rc \in CellsOf("image") : table[rc[1]][rc[2]].path = it.path}

CeilDiv(a, b) == (a + b - 1) \div b

\* C1: after build_document completes, the number of embedded images equals
\* the number N of discovered images: every discovered image is embedded in
\* exactly one image cell and its caption is written in the cell directly
\* below it (same column, next physical row).
C1_AllEmbedded ==
  pc = "done" =>
    /\ Cardinality(CellsOf("image")) = N
    /\ \A k \in 1..N :
         /\ Cardinality(CellsEmbedding(images[k])) = 1
         /\ \A rc \in CellsEmbedding(images[k]) :
              /\ rc[1] < Len(table)
              /\ table[rc[1] + 1][rc[2]].kind = "caption"
              /\ table[rc[1] + 1][rc[2]].text = images[k].mileage_text

\* C2: the caption numbers written form the contiguous sequence 1..N with
\* no gaps or repeats, the k-th image of find_images' order receives n = k,
\* and its cycle suffix is ((n-1) mod 3) + 1; for 7 images the suffixes are
\* 1,2,3,1,2,3,1.
C2_Numbering ==
  pc = "done" =>
    /\ Cardinality(CellsOf("caption")) = N
    /\ {table[rc[1]][rc[2]].n : rc \in CellsOf("caption")} = 1..N
    /\ \A k \in 1..N : \E rc \in CellsEmbedding(images[k]) :
         /\ rc[1] < Len(table)
         /\ table[rc[1] + 1][rc[2]].kind = "caption"
         /\ table[rc[1] + 1][rc[2]].n = k
         /\ table[rc[1] + 1][rc[2]].s = ((k - 1) % 3) + 1
    /\ N = 7 => \A rc \in CellsOf("caption") :
         table[rc[1]][rc[2]].s = <<1, 2, 3, 1, 2, 3, 1>>[table[rc[1]][rc[2]].n]

C6_CallbackSequence ==
  pc = "done" =>
    calls = IF hasCallback THEN [i \in 1..N |-> <<i, N>>] ELSE <<>>

\* C7: the output file is written only on full success.  A missing
\* directory raises the not-found error and a directory without supported
\* images the no-input error, both before any image is processed and before
\* any progress callback; an image that fails to decode aborts the run at
\* once (it is not skipped); in all three cases document.save is not
\* executed and the output path is left as it was.
C7_SaveOnlyOnSuccess ==
  /\ (pc # "start" /\ ~dirExists) =>
        /\ pc = "error" /\ err = "notfound"
        /\ processed = 0 /\ calls = <<>> /\ log = <<>> /\ table = <<>>
  /\ (pc # "start" /\ dirExists /\ \A e \in Range(listing) : ~Supported(e)) =>
        /\ pc = "error" /\ err = "noinput"
        /\ processed = 0 /\ calls = <<>> /\ log = <<>> /\ table = <<>>
  /\ \A i \in 1..Len(log) : (log[i][1] = "open" /\ log[i][2] \in bad) =>
        /\ pc = "error" /\ err = "decode"
        /\ i = Len(log)
  /\ pc = "error" => (err # "none" /\ outfile = outfile0)
  /\ outfile # outfile0 => (pc = "done" /\ err = "none")
  /\ pc \in {"save", "done"} =>
        /\ dirExists /\ N >= 1
        /\ \A i \in 1..Len(log) : log[i][1] = "open" => log[i][2] \notin bad

C7_Witness ==
  /\ pc = "error" /\ err = "decode"
  /\ processed >= 1
  /\ outfile0 = "old" /\ outfile = "old"

\* C8: the sequence is consumed in chunks of exactly per_row items (only
\* the last may be shorter), one logical row (an image row followed by a
\* caption row) per chunk, ceil(N/per_row) logical rows in all; the k-th
\* image sits in logical row ceil(k/per_row) at image column
\* (k-1) mod per_row, its caption below it, and every other cell is blank.
C8_RowPartition ==
  pc = "done" =>
    /\ Len(table) = 2 * CeilDiv(N, per_row)
    /\ \A k \in 1..N :
         LET r == 2 * CeilDiv(k, per_row) - 1
             c == 2 * ((k - 1) % per_row) + 1
         IN  /\ r < Len(table) /\ c <= TableCols
             /\ table[r][c] = ImageCell(images[k])
             /\ table[r + 1][c].kind = "caption"
             /\ table[r + 1][c].text = images[k].mileage_text
    /\ Cardinality(CellsOf("image")) = N
    /\ Cardinality(CellsOf("caption")) = N

(***************************************************************************)
(* SpecCanvas: the geometry of prepare_image_stream for one source image   *)
(* of img_size pixels and a target box of target pixels.  scale is kept as *)
(* an exact fraction.                                                      *)
(***************************************************************************)
Frac(n, d)    == [num |-> n, den |-> d]
FracLT(a, b)  == a.num * b.den < b.num * a.den
FracMin(a, b) == IF FracLT(b, a) THEN b ELSE a

\* whether 1/d is exactly representable in binary floating point
RECURSIVE Dyadic(_)
Dyadic(d) == d = 1 \/ (d % 2 = 0 /\ Dyadic(d \div 2))

\* int(round(x * scale)) with scale = sc and x an integer.  round() rounds
\* a half to the even neighbour.  The code computes x * scale in floating
\* point: where scale is not exactly representable a product that is a
\* half in exact arithmetic may land on either side of it, so both
\* neighbours are outcomes; away from a half the floating-point error is
\* far too small to change the result.
RoundChoices(x, sc) ==
  LET p == x * sc.num
      q == sc.den
      f == p \div q
      r == p - f * q
  IN  IF 2 * r < q THEN {f}
      ELSE IF 2 * r > q THEN {f + 1}
      ELSE IF Dyadic(q) THEN {IF f % 2 = 0 THEN f ELSE f + 1}
      ELSE {f, f + 1}

\* scale = min(target_w / img.width, target_h / img.height, 1.0)
ScaleOf_NoCap(w, h, tw, th) == FracMin(Frac(tw, w), Frac(th, h))

ScaleOf(w, h, tw, th) == FracMin(FracMin(Frac(tw, w), Frac(th, h)), Frac(1, 1))

InitCanvas ==
  /\ pc = "open"
  /\ img_size \in (1..MaxDim) \X (1..MaxDim)
  /\ target \in (1..MaxDim) \X (1..MaxDim)
  /\ new_size = <<0, 0>> /\ offset = <<0, 0>>
  /\ SortIdle /\ BuildIdle /\ GuiIdle

\* new_size, resize, the white canvas, offset and paste
PasteOnCanvas ==
  /\ pc = "open"
  /\ LET scale == ScaleOf(img_size[1], img_size[2], target[1], target[2])
     IN  \E rw \in RoundChoices(img_size[1], scale), rh \in RoundChoices(img_size[2], scale) :
           /\ new_size' = <<Max(1, rw), Max(1, rh)>>
           /\ offset' = <<(target[1] - new_size'[1]) \div 2,
                          (target[2] - new_size'[2]) \div 2>>
  /\ pc' = "pasted"
  /\ UNCHANGED <<img_size, target, sortVars, buildVars, guiVars>>

NextCanvas == PasteOnCanvas
SpecCanvas == InitCanvas /\ [][NextCanvas]_vars

\* C9: the pasted size (w', h') satisfies 1 <= w' <= min(w, tw) and
\* 1 <= h' <= min(h, th); a source that fits the box is pasted at exactly
\* its own size; the paste offset is the floor of half the free space on
\* each axis and is never negative.
C9_NoUpscaleNoOverflow ==
  pc = "pasted" =>
    /\ \A a \in 1..2 :
         /\ 1 <= new_size[a]
         /\ new_size[a] <= Min(img_size[a], target[a])
         /\ offset[a] >= 0
         /\ 2 * offset[a] <= target[a] - new_size[a]
         /\ target[a] - new_size[a] <= 2 * offset[a] + 1
    /\ (img_size[1] <= target[1] /\ img_size[2] <= target[2]) => new_size = img_size

C9_Witness ==
  /\ pc = "pasted"
  /\ img_size = <<6, 3>> /\ target = <<5, 5>>
  /\ new_size[1] = 5 /\ new_size[2] \in {2, 3}
  /\ offset[2] >= 1

(***************************************************************************)
(* SpecGui: ReportApp.  The foreground (Tk main loop) runs run_generation  *)
(* on a click and the callbacks posted with self.after; each run has a     *)
(* worker thread running task().  A worker is at "started" (thread         *)
(* started), "running" (inside generate_word_report), "returned" (it       *)
(* returned or raised) or "exited" (_on_finish posted).                    *)
(***************************************************************************)
InitGui ==
  /\ pc = "mainloop"
  /\ button = "normal"
  /\ dialog = <<>>
  /\ folderOk \in BOOLEAN
  /\ worker = <<>>
  /\ queue = <<>>
  /\ SortIdle /\ BuildIdle /\ CanvasIdle

Active(w) == worker[w].pc \in {"started", "running"}

\* The operator edits the folder entry or picks a folder (select_folder)
EditFolder ==
  /\ dialog = <<>>
  /\ folderOk' = ~folderOk
  /\ UNCHANGED <<pc, button, dialog, worker, queue, sortVars, buildVars, canvasVars>>

\* run_generation, which Tk calls for a click on run_button while the
\* button is not disabled and no message box holds the input grab.  An
\* invalid folder is rejected with a message box; output_path.parent.mkdir
\* may raise, which ends the handler before the button is disabled.
RunGeneration_NoDisable ==
  /\ button = "normal" /\ dialog = <<>>
  /\ Len(worker) < MaxRuns
  /\ IF ~folderOk
     THEN /\ dialog' = Append(dialog, "invalid")
          /\ UNCHANGED <<button, worker>>
     ELSE \E mkdirOk \in BOOLEAN :
            IF ~mkdirOk
            THEN UNCHANGED <<button, dialog, worker>>
            ELSE /\ button' = button
                 /\ worker' = Append(worker, [pc |-> "started", posted |-> 0])
                 /\ dialog' = dialog
  /\ UNCHANGED <<pc, folderOk, queue, sortVars, buildVars, canvasVars>>

RunGeneration ==
  /\ button = "normal" /\ dialog = <<>>
  /\ Len(worker) < MaxRuns
  /\ IF ~folderOk
     THEN /\ dialog' = Append(dialog, "invalid")
          /\ UNCHANGED <<button, worker>>
     ELSE \E mkdirOk \in BOOLEAN :
            IF ~mkdirOk
            THEN UNCHANGED <<button, dialog, worker>>
            ELSE /\ button' = "disabled"
                 /\ worker' = Append(worker, [pc |-> "started", posted |-> 0])
                 /\ dialog' = dialog
  /\ UNCHANGED <<pc, folderOk, queue, sortVars, buildVars, canvasVars>>

\* The operator closes the topmost message box
DismissDialog ==
  /\ dialog # <<>>
  /\ dialog' = SubSeq(dialog, 1, Len(dialog) - 1)
  /\ UNCHANGED <<pc, button, folderOk, worker, queue, sortVars, buildVars, canvasVars>>

\* task() calls generate_word_report
WorkerBegin(w) ==
  /\ worker[w].pc = "started"
  /\ worker' = [worker EXCEPT ![w].pc = "running"]
  /\ UNCHANGED <<pc, button, dialog, folderOk, queue, sortVars, buildVars, canvasVars>>

\* progress_callback(done, total), called inside generate_word_report
WorkerProgress(w) ==
  /\ worker[w].pc = "running"
  /\ worker[w].posted < MaxProgress
  /\ worker' = [worker EXCEPT ![w].posted = @ + 1]
  /\ queue' = Append(queue, <<"progress", w, TRUE>>)
  /\ UNCHANGED <<pc, button, dialog, folderOk, sortVars, buildVars, canvasVars>>

\* generate_word_report returns or raises
WorkerReturn(w) ==
  /\ worker[w].pc = "running"
  /\ \E success \in BOOLEAN :
       worker' = [worker EXCEPT ![w] = [pc |-> "returned", posted |-> @.posted,
                                         success |-> success]]
  /\ UNCHANGED <<pc, button, dialog, folderOk, queue, sortVars, buildVars, canvasVars>>

\* the except / else branch of task(): self.after(0, ... self._on_finish(...))
WorkerPostFinish(w) ==
  /\ worker[w].pc = "returned"
  /\ queue' = Append(queue, <<"finish", w, worker[w].success>>)
  /\ worker' = [worker EXCEPT ![w] = [pc |-> "exited", posted |-> @.posted]]
  /\ UNCHANGED <<pc, button, dialog, folderOk, sortVars, buildVars, canvasVars>>

\* The main loop (also while a message box is open) runs the oldest posted
\* callback: _update_progress, or _on_finish, which re-enables the button
\* and then shows a message box
ForegroundCallback ==
  /\ queue # <<>>
  /\ queue' = Tail(queue)
  /\ IF Head(queue)[1] = "finish"
     THEN /\ button' = "normal"
          /\ dialog' = Append(dialog, IF Head(queue)[3] THEN "done" ELSE "error")
     ELSE UNCHANGED <<button, dialog>>
  /\ UNCHANGED <<pc, folderOk, worker, sortVars, buildVars, canvasVars>>

NextGui ==
  \/ EditFolder \/ RunGeneration \/ DismissDialog \/ ForegroundCallback
  \/ \E w \in 1..Len(worker) :
       WorkerBegin(w) \/ WorkerProgress(w) \/ WorkerReturn(w) \/ WorkerPostFinish(w)

SpecGui == InitGui /\ [][NextGui]_vars

\* C10: under any interleaving, at most one worker that has not yet left
\* generate_word_report exists; while the button is enabled no run is in
\* progress (no worker before its posted _on_finish has run); a click
\* rejected for an invalid folder leaves the button enabled and no worker
\* running.
C10_RunsSerialized ==
  /\ Cardinality({w \in 1..Len(worker) : Active(w)}) <= 1
  /\ button = "normal" =>
       /\ \A w \in 1..Len(worker) : worker[w].pc = "exited"
       /\ \A i \in 1..Len(queue) : queue[i][1] # "finish"
  /\ (dialog # <<>> /\ dialog[Len(dialog)] = "invalid") =>
       /\ button = "normal"
       /\ \A w \in 1..Len(worker) : ~Active(w)

C10_Witness ==
  /\ Len(worker) >= 2
  /\ worker[1].pc = "exited"
  /\ worker[2].pc = "running"
  /\ button = "disabled"

====
